---- MODULE Spec2Model ----
(***************************************************************************)
(* Model of the asynchronous job pipeline (api/endpoints/etl.py, tasks.py) *)
(* and of the directory watcher (services/file_watcher.py).                *)
(***************************************************************************)
EXTENDS Integers, Sequences, FiniteSets, TLC

(***************************************************************************)
(* Bounds of the model.                                                    *)
(***************************************************************************)
\* number of POST /process requests
MaxRequests == 2
\* number of times the broker hands an already dispatched message out again
MaxRedeliver == 1

\* number of DELETE /results/{id} requests
MaxDeletes == 1
\* events outside the normal flow in one behaviour: a redelivery, a deleted
\* row, an error of the database, of the download or of a subscriber's socket
MaxFaults == 1

FileIds == {"f1"}
\* what the parameters say about the dataset's columns
ParamKinds == {"valid", "missing_column"}
\* request bodies: job type and parameters
Requests == {[processing_type |-> "rolling_mean", parameters |-> "valid"],
             [processing_type |-> "peak_detection", parameters |-> "missing_column"],
             [processing_type |-> "custom", parameters |-> "missing_column"]}
ReqIds == 1..MaxRequests
JobIds == 1..MaxRequests
\* concurrent executors of the worker pool
WorkerCount == 2
ExecIds == 1..WorkerCount

VARIABLES
    datafile,       \* DataFile table: "none" | "local" (s3_path NULL) | "s3"
    results,        \* ProcessingResult table, by id
    req,            \* invocations of the process_data handler
    queue,          \* broker: undelivered process_data_task messages per id
    exec,           \* executions of process_data_task
    temp_files,     \* celery_processing_* files in DATA_DIR, by executor
    published,      \* events handed to notify_clients
    ended,          \* history: how each finished execution left the task,
                    \*   and whether its temporary file existed by then
    dispatchCount,  \* history: calls of process_data_task.delay per id
    redelivered,    \* history: redeliveries by the broker
    faults,         \* history: redeliveries, deletions and I/O errors so far
    statusLog,      \* history: status values committed per id, in order
    invoked         \* history: processor invocations per id

jobVars == <<datafile, results, req, queue, exec, temp_files, published, ended, dispatchCount,
             redelivered, faults, statusLog, invoked>>

\* state of the directory watcher (services/file_watcher.py)
VARIABLES
    now,                  \* time.time(), in ticks
    fs,                   \* the watch directory: "absent" or the file's content
    processed_files,
    processing_files,
    last_modified_times,  \* by path; NoEntry when the key is missing
    waiter,               \* threads running _wait_and_process
    swept,                \* paths the startup sweep has walked past
    records,              \* DataFile rows written by _save_record, per path
    seen,                 \* history: first and last event per path, gaps kept
    emitted               \* history: one entry per row written by a waiter

watchVars == <<now, fs, processed_files, processing_files, last_modified_times,
               waiter, swept, records, seen, emitted>>

\* state of one FileWatcher (services/file_watcher.py) and of its threads
VARIABLES
    is_running,
    observer,             \* self.observer: an observer's id, or NoObserver
    observers,            \* every Observer created so far, by id
    thread,               \* position of the caller and of each health-check thread
    orphaned              \* history: paths that were waiting when an observer died

lifeVars == <<is_running, observer, observers, thread, orphaned>>

\* one call of etl/processors/rolling_mean.py: process
VARIABLES
    df,                   \* the input frame, by column
    params,
    result_df             \* the returned frame, by column name

procVars == <<df, params, result_df>>

(***************************************************************************)
(* schemas/etl.py: ProcessingStatus                                        *)
(***************************************************************************)
PENDING == "pending"
PROCESSING == "processing"
COMPLETED == "completed"
FAILED == "failed"
ProcessingStatus == {PENDING, PROCESSING, COMPLETED, FAILED}

\* result_data column: NULL, a processor's payload, or {"error": ...}; a
\* payload may itself carry an "error" key (custom processors return one)
Null == [payload |-> FALSE, error |-> "none"]

NoRow == [exists |-> "no", data_file_id |-> "f1", processing_type |-> "rolling_mean",
          parameters |-> "valid", status |-> PENDING, result_data |-> Null]
NoReq == [pc |-> "idle", data_file_id |-> "f1", processing_type |-> "rolling_mean",
          parameters |-> "valid", id |-> 0, code |-> 0, status |-> "none",
          task_id |-> "null"]
NoExec == [pc |-> "free", job |-> 0, temp |-> FALSE, result |-> Null, error |-> "none"]

JobsInit ==
    /\ datafile = [f \in FileIds |-> "none"]
    /\ results = [j \in JobIds |-> NoRow]
    /\ req = [r \in ReqIds |-> NoReq]
    /\ queue = [j \in JobIds |-> 0]
    /\ exec = [e \in ExecIds |-> NoExec]
    /\ temp_files = {}
    /\ published = {}
    /\ ended = {}
    /\ dispatchCount = [j \in JobIds |-> 0]
    /\ redelivered = 0
    /\ faults = 0
    /\ statusLog = [j \in JobIds |-> <<>>]
    /\ invoked = [j \in JobIds |-> 0]

Live(j) == results[j].exists = "yes"

\* the ids handed out so far: DBProcessingResult.id is a fresh uuid4 per record
NextId == Cardinality({j \in JobIds : results[j].exists # "no"}) + 1

\* session.commit() of an object whose status (and result_data) were assigned:
\* an UPDATE by primary key, whatever the row's current status
CommitStatus(j, s, d) ==
    /\ results' = [results EXCEPT ![j].status = s, ![j].result_data = d]
    /\ statusLog' = [statusLog EXCEPT ![j] = Append(@, s)]

(***************************************************************************)
(* api/endpoints/data.py: upload_data_file_handler                         *)
(***************************************************************************)
upload_data_file_handler(f, aws) ==
    /\ datafile[f] = "none"
    /\ datafile' = [datafile EXCEPT ![f] = IF aws THEN "s3" ELSE "local"]
    /\ UNCHANGED <<results, req, queue, exec, temp_files, published, ended,
                   dispatchCount, redelivered, faults, statusLog, invoked>>
    /\ UNCHANGED <<watchVars, lifeVars, procVars>>

(***************************************************************************)
(* api/endpoints/etl.py: process_data                                      *)
(***************************************************************************)
\* variant of process_data_create without the existence check of lines 42-44
process_data_create_nocheck(r, f, t, p) ==
    /\ req[r].pc = "idle"
    /\ \A q \in ReqIds : q < r => req[q].pc # "idle"
    /\ results' = [results EXCEPT ![NextId] =
                      [exists |-> "yes", data_file_id |-> f, processing_type |-> t,
                       parameters |-> p, status |-> PENDING, result_data |-> Null]]
    /\ statusLog' = [statusLog EXCEPT ![NextId] = <<PENDING>>]
    /\ req' = [req EXCEPT ![r] = [@ EXCEPT !.pc = "created", !.data_file_id = f,
                                      !.processing_type = t, !.parameters = p,
                                      !.id = NextId]]
    /\ UNCHANGED <<datafile, queue, exec, temp_files, published, ended, dispatchCount,
                   redelivered, faults, invoked>>
    /\ UNCHANGED <<watchVars, lifeVars, procVars>>

\* lines 42-54: existence check, then the PENDING record is committed
process_data_create(r, f, t, p) ==
    /\ req[r].pc = "idle"
    /\ \A q \in ReqIds : q < r => req[q].pc # "idle"
    /\ IF datafile[f] = "none"
       THEN /\ req' = [req EXCEPT ![r] = [@ EXCEPT !.pc = "done", !.data_file_id = f,
                                              !.processing_type = t, !.parameters = p,
                                              !.code = 404]]
            /\ UNCHANGED <<results, statusLog>>
       ELSE /\ results' = [results EXCEPT ![NextId] =
                              [exists |-> "yes", data_file_id |-> f,
                               processing_type |-> t, parameters |-> p,
                               status |-> PENDING, result_data |-> Null]]
            /\ statusLog' = [statusLog EXCEPT ![NextId] = <<PENDING>>]
            /\ req' = [req EXCEPT ![r] = [@ EXCEPT !.pc = "created", !.data_file_id = f,
                                              !.processing_type = t, !.parameters = p,
                                              !.id = NextId]]
    /\ UNCHANGED <<datafile, queue, exec, temp_files, published, ended, dispatchCount,
                   redelivered, faults, invoked>>
    /\ UNCHANGED <<watchVars, lifeVars, procVars>>

\* variant of process_data_dispatch that calls delay twice
process_data_dispatch_twice(r) ==
    /\ req[r].pc = "created"
    /\ queue' = [queue EXCEPT ![req[r].id] = @ + 2]
    /\ dispatchCount' = [dispatchCount EXCEPT ![req[r].id] = @ + 2]
    /\ req' = [req EXCEPT ![r].pc = "dispatched"]
    /\ UNCHANGED <<datafile, results, exec, temp_files, published, ended, redelivered, faults,
                   statusLog, invoked>>
    /\ UNCHANGED <<watchVars, lifeVars, procVars>>

\* lines 57-62: process_data_task.delay(...)
process_data_dispatch(r) ==
    /\ req[r].pc = "created"
    /\ queue' = [queue EXCEPT ![req[r].id] = @ + 1]
    /\ dispatchCount' = [dispatchCount EXCEPT ![req[r].id] = @ + 1]
    /\ req' = [req EXCEPT ![r].pc = "dispatched"]
    /\ UNCHANGED <<datafile, results, exec, temp_files, published, ended, redelivered, faults,
                   statusLog, invoked>>
    /\ UNCHANGED <<watchVars, lifeVars, procVars>>

\* lines 65-73.  ProcessingResult declares no task_id field (db/models.py,
\* lines 42-60), so whether the assignment at line 65 is accepted is up to the
\* model's base class: it may raise.  When it is accepted nothing is dirty,
\* the commit writes no column, and the object refreshed from the row is
\* returned with the attribute still on it; a row deleted in the meantime
\* makes the refresh raise.
process_data_return(r, assignable) ==
    /\ req[r].pc = "dispatched"
    /\ req' = [req EXCEPT ![r] =
                 IF assignable /\ Live(req[r].id)
                 THEN [@ EXCEPT !.pc = "done", !.code = 200,
                                !.status = results[req[r].id].status,
                                !.task_id = "set"]
                 ELSE [@ EXCEPT !.pc = "done", !.code = 500]]
    /\ UNCHANGED <<datafile, results, queue, exec, temp_files, published, ended,
                   dispatchCount, redelivered, faults, statusLog, invoked>>
    /\ UNCHANGED <<watchVars, lifeVars, procVars>>

\* lines 124-146: delete_processing_result
delete_processing_result(j) ==
    /\ Live(j)
    /\ Cardinality({k \in JobIds : results[k].exists = "deleted"}) < MaxDeletes
    /\ faults < MaxFaults
    /\ results' = [results EXCEPT ![j].exists = "deleted"]
    /\ faults' = faults + 1
    /\ UNCHANGED <<datafile, req, queue, exec, temp_files, published, ended,
                   dispatchCount, redelivered, statusLog, invoked>>
    /\ UNCHANGED <<watchVars, lifeVars, procVars>>

(***************************************************************************)
(* celery_worker.py: the broker delivers at least once                     *)
(***************************************************************************)
Redeliver(j) ==
    /\ dispatchCount[j] > 0
    /\ redelivered < MaxRedeliver
    /\ faults < MaxFaults
    /\ queue' = [queue EXCEPT ![j] = @ + 1]
    /\ redelivered' = redelivered + 1
    /\ faults' = faults + 1
    /\ UNCHANGED <<datafile, results, req, exec, temp_files, published, ended,
                   dispatchCount, statusLog, invoked>>
    /\ UNCHANGED <<watchVars, lifeVars, procVars>>

(***************************************************************************)
(* etl/processors: what the selected processor does with the parameters,   *)
(* and what tasks.py lines 85-121 make of its return value                 *)
(***************************************************************************)
\* rolling_mean.process skips the columns the dataset does not have (line 39)
rolling_mean(p) == [raised |-> FALSE, data |-> [payload |-> TRUE, error |-> "none"]]

\* peak_detection.process raises for a column the dataset does not have
\* (lines 41-42); its return value is then tested against np.ndarray at
\* tasks.py line 97, in a module that does not import numpy
peak_detection(p) ==
    IF p = "missing_column"
    THEN [raised |-> TRUE, data |-> [payload |-> FALSE, error |-> "column_not_found"]]
    ELSE [raised |-> TRUE, data |-> [payload |-> FALSE, error |-> "name_np_not_defined"]]

\* example_custom_processor.process puts an "error" key into the dictionary
\* it returns (lines 27-33) and returns normally
example_custom_processor(p) ==
    IF p = "missing_column"
    THEN [raised |-> FALSE, data |-> [payload |-> TRUE, error |-> "column_not_found"]]
    ELSE [raised |-> FALSE, data |-> [payload |-> TRUE, error |-> "none"]]

\* lines 85-121: the processor selected by the job type, on the parameters
Processor(t, p) ==
    CASE t = "rolling_mean" -> rolling_mean(p)
      [] t = "peak_detection" -> peak_detection(p)
      [] t = "custom" -> example_custom_processor(p)
      [] OTHER -> [raised |-> TRUE,
                   data |-> [payload |-> FALSE, error |-> "unsupported_type"]]

FreeExec == CHOOSE e \in ExecIds : exec[e].pc = "free" /\
                \A d \in ExecIds : d < e => exec[d].pc # "free"

(***************************************************************************)
(* tasks.py: process_data_task                                             *)
(***************************************************************************)
\* variant of Leave whose finally block removes nothing
Leave_keep(e, how) ==
    /\ exec' = [exec EXCEPT ![e] = NoExec]
    /\ ended' = ended \cup {[job |-> exec[e].job, how |-> how, temp |-> e \in temp_files]}
    /\ UNCHANGED temp_files

\* the task function is left (by return or by an exception): the finally
\* block (lines 154-160) removes the temporary file when temp_local_path is
\* set and the file exists, and the executor is free again
Leave(e, how) ==
    /\ exec' = [exec EXCEPT ![e] = NoExec]
    /\ ended' = ended \cup {[job |-> exec[e].job, how |-> how, temp |-> e \in temp_files]}
    /\ temp_files' = IF exec[e].temp THEN temp_files \ {e} ELSE temp_files

\* lines 42-53: a worker takes a message and reads the record; without a
\* record the task returns at line 53.  When session.get itself raises, the
\* handler at line 132 finds no db_processing_result among the locals, skips
\* lines 136-140, and line 141 raises on the unbound name.
task_fetch(j, db_ok) ==
    /\ queue[j] > 0
    /\ \E e \in ExecIds : exec[e].pc = "free"
    /\ queue' = [queue EXCEPT ![j] = @ - 1]
    /\ db_ok \/ faults < MaxFaults
    /\ faults' = IF db_ok THEN faults ELSE faults + 1
    /\ IF ~db_ok
       THEN /\ ended' = ended \cup {[job |-> j, how |-> "unbound", temp |-> FALSE]}
            /\ UNCHANGED exec
       ELSE IF Live(j)
       THEN /\ exec' = [exec EXCEPT ![FreeExec] = [@ EXCEPT !.job = j, !.pc = "fetched"]]
            /\ UNCHANGED ended
       ELSE /\ ended' = ended \cup {[job |-> j, how |-> "notfound", temp |-> FALSE]}
            /\ UNCHANGED exec
    /\ UNCHANGED <<datafile, results, req, temp_files, published, dispatchCount,
                   redelivered, statusLog, invoked>>
    /\ UNCHANGED <<watchVars, lifeVars, procVars>>

\* lines 55-60
task_mark_processing(e) ==
    /\ exec[e].pc = "fetched"
    /\ IF Live(exec[e].job)
       THEN /\ CommitStatus(exec[e].job, PROCESSING, results[exec[e].job].result_data)
            /\ exec' = [exec EXCEPT ![e].pc = "marked"]
       ELSE /\ exec' = [exec EXCEPT ![e] = [@ EXCEPT !.pc = "except", !.error = "stale_row"]]
            /\ UNCHANGED <<results, statusLog>>
    /\ UNCHANGED <<datafile, req, queue, temp_files, published, ended, dispatchCount,
                   redelivered, faults, invoked>>
    /\ UNCHANGED <<watchVars, lifeVars, procVars>>

\* lines 62-121: DataFile lookup, download to a temporary file, processor
task_process(e, downloaded) ==
    /\ exec[e].pc = "marked"
    /\ faults' = IF datafile[results[exec[e].job].data_file_id] = "s3" /\ ~downloaded
                 THEN faults + 1 ELSE faults
    /\ LET row == results[exec[e].job]
           out == Processor(row.processing_type, row.parameters)
       IN  IF datafile[row.data_file_id] # "s3"
           THEN /\ exec' = [exec EXCEPT ![e] =
                      [@ EXCEPT !.pc = "except", !.error = "no_s3_path"]]
                /\ UNCHANGED <<invoked, temp_files>>
           ELSE IF ~downloaded
           THEN /\ faults < MaxFaults
                /\ exec' = [exec EXCEPT ![e] =
                      [@ EXCEPT !.pc = "except", !.temp = TRUE,
                                !.error = "download_failed"]]
                /\ UNCHANGED <<invoked, temp_files>>
           ELSE /\ invoked' = [invoked EXCEPT ![exec[e].job] = @ + 1]
                /\ temp_files' = temp_files \cup {e}
                /\ exec' = [exec EXCEPT ![e] =
                      [@ EXCEPT !.temp = TRUE,
                                !.result = out.data,
                                !.error = out.data.error,
                                !.pc = IF out.raised THEN "except" ELSE "processed"]]
    /\ UNCHANGED <<datafile, results, req, queue, published, ended, dispatchCount,
                   redelivered, statusLog>>
    /\ UNCHANGED <<watchVars, lifeVars, procVars>>

\* lines 123-130, then the finally block 154-160; the return at line 130
\* leaves the function, so lines 162-171 are not run
task_complete(e) ==
    /\ exec[e].pc = "processed"
    /\ IF Live(exec[e].job)
       THEN /\ CommitStatus(exec[e].job, COMPLETED, exec[e].result)
            /\ Leave(e, "completed")
       ELSE /\ exec' = [exec EXCEPT ![e] = [@ EXCEPT !.pc = "except", !.error = "stale_row"]]
            /\ UNCHANGED <<results, statusLog, ended, temp_files>>
    /\ UNCHANGED <<datafile, req, queue, published, dispatchCount, redelivered, faults, invoked>>
    /\ UNCHANGED <<watchVars, lifeVars, procVars>>

\* lines 132-140; a commit that raises inside the handler leaves the task
\* through the finally block
task_fail(e) ==
    /\ exec[e].pc = "except"
    /\ IF Live(exec[e].job)
       THEN /\ CommitStatus(exec[e].job, FAILED, [payload |-> FALSE, error |-> exec[e].error])
            /\ exec' = [exec EXCEPT ![e].pc = "failed"]
            /\ UNCHANGED <<ended, temp_files>>
       ELSE /\ Leave(e, "raised")
            /\ UNCHANGED <<results, statusLog>>
    /\ UNCHANGED <<datafile, req, queue, published, dispatchCount, redelivered, faults, invoked>>
    /\ UNCHANGED <<watchVars, lifeVars, procVars>>

\* lines 141-153, then the finally block 154-160: the event carries the
\* status read back by session.refresh; notify_clients awaits send_text for
\* each connection (websocket.py lines 26-33, 61-70) and nothing catches what
\* it raises
task_notify_failed(e, sent) ==
    /\ exec[e].pc = "failed"
    /\ IF ~Live(exec[e].job)
       THEN /\ Leave(e, "raised")
            /\ UNCHANGED published
       ELSE IF sent
       THEN /\ published' = published \cup
                   {[job |-> exec[e].job,
                     data_file_id |-> results[exec[e].job].data_file_id,
                     status |-> results[exec[e].job].status]}
            /\ Leave(e, "failed")
       ELSE /\ faults < MaxFaults
            /\ Leave(e, "notify_raised")
            /\ UNCHANGED published
    /\ faults' = IF Live(exec[e].job) /\ ~sent THEN faults + 1 ELSE faults
    /\ UNCHANGED <<datafile, results, req, queue, dispatchCount, redelivered,
                   statusLog, invoked>>
    /\ UNCHANGED <<watchVars, lifeVars, procVars>>

JobsNext ==
    \/ \E f \in FileIds, aws \in BOOLEAN : upload_data_file_handler(f, aws)
    \/ \E r \in ReqIds, f \in FileIds, b \in Requests :
          process_data_create(r, f, b.processing_type, b.parameters)
    \/ \E r \in ReqIds, a \in BOOLEAN : process_data_return(r, a)
    \/ \E r \in ReqIds : process_data_dispatch(r)
    \/ \E j \in JobIds : delete_processing_result(j)
    \/ \E j \in JobIds : Redeliver(j)
    \/ \E j \in JobIds, ok \in BOOLEAN : task_fetch(j, ok)
    \/ \E e \in ExecIds : task_mark_processing(e)
    \/ \E e \in ExecIds, d \in BOOLEAN : task_process(e, d)
    \/ \E e \in ExecIds : task_complete(e)
    \/ \E e \in ExecIds : task_fail(e)
    \/ \E e \in ExecIds, s \in BOOLEAN : task_notify_failed(e, s)

(***************************************************************************)
(* services/file_watcher.py: DataFileHandler                               *)
(*                                                                         *)
(* Time is counted in ticks of the polling sleep (0.5 s).  A waiter thread *)
(* that can run does so before the clock advances: its steps take no time  *)
(* on the scale of the sleep.  Event callbacks run on the observer's one   *)
(* dispatching thread, so each callback is one step; the waiter threads    *)
(* interleave with them statement by statement.                            *)
(***************************************************************************)
Paths == {"a.csv"}
\* "no_rows": a CSV that parses to an empty frame (a header and nothing else)
Contents == {"empty", "valid", "malformed", "no_rows"}
\* waiter threads alive at once
MaxWaiters == 2
WaiterIds == 1..MaxWaiters
\* rows written per path
MaxRecords == 2
\* ticks explored after the clock's initial reading
WatchTicks == 5
BurstTicks == 62

stable_wait == 2
max_wait == 30
TicksPerSecond == 2
Quiet == stable_wait * TicksPerSecond
Ceiling == max_wait * TicksPerSecond
\* time.time() reads seconds since the epoch: far more than stable_wait
EpochTicks == Quiet

NoEntry == -1
NoWaiter == [pc |-> "none", file_path |-> "a.csv", start_time |-> 0, wake |-> 0,
             why |-> "none", outcome |-> "none", late |-> FALSE]
NoSeen == [first |-> NoEntry, last |-> NoEntry, gaps |-> TRUE]

HandlerInit ==
    /\ now = EpochTicks
    /\ processed_files = {}
    /\ processing_files = {}
    /\ last_modified_times = [p \in Paths |-> NoEntry]
    /\ waiter = [w \in WaiterIds |-> NoWaiter]
    /\ swept = {}
    /\ records = [p \in Paths |-> 0]
    /\ seen = [p \in Paths |-> NoSeen]
    /\ emitted = {}

\* the watch directory starts empty
WatchInit ==
    /\ HandlerInit
    /\ fs = [p \in Paths |-> "absent"]

FreeWaiter == CHOOSE w \in WaiterIds : waiter[w].pc = "none" /\
                  \A v \in WaiterIds : v < w => waiter[v].pc # "none"

\* history: a timestamp was recorded for the path at the current time
Observe(p) ==
    seen' = [seen EXCEPT ![p] =
                [first |-> IF @.first = NoEntry THEN now ELSE @.first,
                 last |-> now,
                 gaps |-> @.gaps /\ (@.last = NoEntry \/ now - @.last < Quiet)]]

\* lines 52-61 (and line 68, the thread's first statement)
schedule_processing(p) ==
    /\ \E w \in WaiterIds : waiter[w].pc = "none"
    /\ processing_files' = processing_files \cup {p}
    /\ last_modified_times' = [last_modified_times EXCEPT ![p] = now]
    /\ waiter' = [waiter EXCEPT ![FreeWaiter] =
                     [pc |-> "wait", file_path |-> p, start_time |-> now,
                      wake |-> now, why |-> "none", outcome |-> "none",
                      late |-> FALSE]]

\* lines 26-35
on_created(p) ==
    /\ schedule_processing(p)
    /\ Observe(p)

\* variant of on_modified without the membership test of line 49
on_modified_unguarded(p) ==
    /\ schedule_processing(p)
    /\ Observe(p)

\* lines 37-50
on_modified(p) ==
    /\ IF p \notin processing_files
       THEN schedule_processing(p)
       ELSE /\ last_modified_times' = [last_modified_times EXCEPT ![p] = now]
            \* history: the event found a thread of the path inside _process_file
            /\ waiter' = [w \in WaiterIds |->
                  IF waiter[w].file_path = p /\ waiter[w].pc \in {"process", "mark", "ingest"}
                  THEN [waiter[w] EXCEPT !.late = TRUE] ELSE waiter[w]]
            /\ UNCHANGED processing_files
    /\ Observe(p)

\* a file appears in the watch directory and the observer reports it
FileCreated(p, c) ==
    /\ fs[p] = "absent"
    /\ fs' = [fs EXCEPT ![p] = c]
    /\ on_created(p)
    /\ UNCHANGED <<now, processed_files, swept, records, emitted>>
    /\ UNCHANGED <<jobVars, lifeVars, procVars>>

\* a file is written and the observer reports it
FileModified(p, c) ==
    /\ fs[p] # "absent"
    /\ fs' = [fs EXCEPT ![p] = c]
    /\ on_modified(p)
    /\ UNCHANGED <<now, processed_files, swept, records, emitted>>
    /\ UNCHANGED <<jobVars, lifeVars, procVars>>

\* a file is removed; the handler has no callback for it
FileDeleted(p) ==
    /\ fs[p] # "absent"
    /\ fs' = [fs EXCEPT ![p] = "absent"]
    /\ UNCHANGED <<now, processed_files, processing_files, last_modified_times,
                   waiter, swept, records, seen, emitted>>
    /\ UNCHANGED <<jobVars, lifeVars, procVars>>

\* lines 269-279: FileWatcher._process_existing_files, one file of the walk
process_existing_files(p) ==
    /\ p \notin swept
    /\ swept' = swept \cup {p}
    /\ IF fs[p] # "absent"
       THEN schedule_processing(p) /\ Observe(p)
       ELSE UNCHANGED <<processing_files, last_modified_times, waiter, seen>>
    /\ UNCHANGED <<now, fs, processed_files, records, emitted>>
    /\ UNCHANGED <<jobVars, lifeVars, procVars>>

\* line 72: self.last_modified_times.get(file_path, 0)
LastModified(p) ==
    IF last_modified_times[p] = NoEntry THEN 0 ELSE last_modified_times[p]

\* variant of wait_check whose ceiling is the quiet interval
wait_check_low_ceiling(w) ==
    /\ waiter[w].pc = "wait"
    /\ waiter[w].wake <= now
    /\ LET p == waiter[w].file_path
           quiet == now - LastModified(p) >= Quiet
           ceil == now - waiter[w].start_time >= Quiet
       IN  waiter' = [waiter EXCEPT ![w] =
              IF quiet \/ ceil
              THEN [@ EXCEPT !.pc = "process",
                             !.why = IF now - seen[p].last >= Quiet THEN "quiet"
                                     ELSE IF ceil THEN "ceiling" ELSE "early"]
              ELSE [@ EXCEPT !.wake = now + 1]]
    /\ UNCHANGED <<now, fs, processed_files, processing_files, last_modified_times,
                   swept, records, seen, emitted>>
    /\ UNCHANGED <<jobVars, lifeVars, procVars>>

\* lines 70-83: one pass of the loop
wait_check(w) ==
    /\ waiter[w].pc = "wait"
    /\ waiter[w].wake <= now
    /\ LET p == waiter[w].file_path
           quiet == now - LastModified(p) >= Quiet
           ceil == now - waiter[w].start_time >= Ceiling
       IN  waiter' = [waiter EXCEPT ![w] =
              IF quiet \/ ceil
              THEN [@ EXCEPT !.pc = "process",
                             !.why = IF now - seen[p].last >= Quiet THEN "quiet"
                                     ELSE IF ceil THEN "ceiling" ELSE "early"]
              ELSE [@ EXCEPT !.wake = now + 1]]
    /\ UNCHANGED <<now, fs, processed_files, processing_files, last_modified_times,
                   swept, records, seen, emitted>>
    /\ UNCHANGED <<jobVars, lifeVars, procVars>>

\* variant of process_file_check without the early returns of lines 107-115
process_file_check_noskip(w) ==
    /\ waiter[w].pc = "process"
    /\ LET p == waiter[w].file_path
       IN  waiter' = [waiter EXCEPT ![w].pc =
              IF p \in processed_files THEN "finally" ELSE "mark"]
    /\ UNCHANGED <<now, fs, processed_files, processing_files, last_modified_times,
                   swept, records, seen, emitted>>
    /\ UNCHANGED <<jobVars, lifeVars, procVars>>

\* lines 101-115: the three early returns of _process_file
process_file_check(w) ==
    /\ waiter[w].pc = "process"
    /\ LET p == waiter[w].file_path
       IN  waiter' = [waiter EXCEPT ![w].pc =
              IF p \in processed_files \/ fs[p] \in {"absent", "empty"}
              THEN "finally" ELSE "mark"]
    /\ UNCHANGED <<now, fs, processed_files, processing_files, last_modified_times,
                   swept, records, seen, emitted>>
    /\ UNCHANGED <<jobVars, lifeVars, procVars>>

\* line 118
process_file_mark(w) ==
    /\ waiter[w].pc = "mark"
    /\ processed_files' = processed_files \cup {waiter[w].file_path}
    /\ waiter' = [waiter EXCEPT ![w].pc = "ingest"]
    /\ UNCHANGED <<now, fs, processing_files, last_modified_times,
                   swept, records, seen, emitted>>
    /\ UNCHANGED <<jobVars, lifeVars, procVars>>

\* lines 120-200: validation, copy, record; the copy or the save may fail
process_file_ingest(w, copy_ok, save_ok) ==
    /\ waiter[w].pc = "ingest"
    /\ LET p == waiter[w].file_path
       IN  IF fs[p] = "absent" \/ (fs[p] # "no_rows" /\ copy_ok /\ ~save_ok)
           THEN \* os.path.getsize or the save raises: lines 196-200
                /\ processed_files' = processed_files \ {p}
                /\ waiter' = [waiter EXCEPT ![w].pc = "finally", ![w].outcome = "raised"]
                /\ UNCHANGED <<records, emitted>>
           ELSE IF fs[p] = "no_rows"
           THEN \* lines 129-132: df.empty, return
                /\ waiter' = [waiter EXCEPT ![w].pc = "finally", ![w].outcome = "no_rows"]
                /\ UNCHANGED <<processed_files, records, emitted>>
           ELSE IF ~copy_ok
           THEN \* lines 160-162
                /\ waiter' = [waiter EXCEPT ![w].pc = "finally",
                                            ![w].outcome = "copy_failed"]
                /\ UNCHANGED <<processed_files, records, emitted>>
           ELSE /\ records[p] < MaxRecords
                /\ records' = [records EXCEPT ![p] = @ + 1]
                /\ emitted' = emitted \cup
                      {[file_path |-> p, at |-> now, why |-> waiter[w].why,
                        ongoing |-> seen[p].gaps /\ now - seen[p].last < Quiet]}
                /\ waiter' = [waiter EXCEPT ![w].pc = "finally", ![w].outcome = "record"]
                /\ UNCHANGED processed_files
    /\ UNCHANGED <<now, fs, processing_files, last_modified_times, swept, seen>>
    /\ UNCHANGED <<jobVars, lifeVars, procVars>>

\* lines 88-90
finally_discard(w) ==
    /\ waiter[w].pc = "finally"
    /\ processing_files' = processing_files \ {waiter[w].file_path}
    /\ waiter' = [waiter EXCEPT ![w].pc = "finally2"]
    /\ UNCHANGED <<now, fs, processed_files, last_modified_times,
                   swept, records, seen, emitted>>
    /\ UNCHANGED <<jobVars, lifeVars, procVars>>

\* lines 91-93; the thread ends
finally_del(w) ==
    /\ waiter[w].pc = "finally2"
    /\ last_modified_times' = [last_modified_times EXCEPT ![waiter[w].file_path] = NoEntry]
    /\ waiter' = [waiter EXCEPT ![w] = NoWaiter]
    /\ UNCHANGED <<now, fs, processed_files, processing_files,
                   swept, records, seen, emitted>>
    /\ UNCHANGED <<jobVars, lifeVars, procVars>>

\* the clock advances once no waiter can run; it is read from the first
\* event on (nothing in the handler depends on the time before it)
Tick(limit) ==
    /\ now < EpochTicks + limit
    /\ \E p \in Paths : seen[p].first # NoEntry
    /\ \A w \in WaiterIds : \/ waiter[w].pc = "none"
                            \/ waiter[w].pc = "wait" /\ waiter[w].wake > now
    /\ now' = now + 1
    /\ UNCHANGED <<fs, processed_files, processing_files, last_modified_times,
                   waiter, swept, records, seen, emitted>>
    /\ UNCHANGED <<jobVars, lifeVars, procVars>>

WaiterNext ==
    \/ \E w \in WaiterIds : wait_check(w)
    \/ \E w \in WaiterIds : process_file_check(w)
    \/ \E w \in WaiterIds : process_file_mark(w)
    \/ \E w \in WaiterIds : finally_discard(w)
    \/ \E w \in WaiterIds : finally_del(w)

\* every event, every content, every failure of the copy and of the save
WatchNext ==
    \/ \E p \in Paths, c \in Contents : FileCreated(p, c)
    \/ \E p \in Paths, c \in Contents : FileModified(p, c)
    \/ \E p \in Paths : FileDeleted(p)
    \/ \E p \in Paths : process_existing_files(p)
    \/ \E w \in WaiterIds, c \in BOOLEAN, s \in BOOLEAN : process_file_ingest(w, c, s)
    \/ WaiterNext
    \/ Tick(WatchTicks)

(***************************************************************************)
(* etl/processors/rolling_mean.py: process                                 *)
(*                                                                         *)
(* A frame is a function from column names to columns.  A column name is   *)
(* the tuple of the parts the code joins with "_"; a mean is the fraction  *)
(* num/den, and NaN the value pandas yields for a window that is not full. *)
(***************************************************************************)
\* rows of the input frame
MaxLen == 5
\* values of the numeric column: 1..MaxValue
MaxValue == 5
\* window sizes passed in params: 2..MaxWindow
MaxWindow == 3

NaN == [num |-> 0, den |-> 0]
NoFrame == <<>>

\* the frames of the calls: a numeric column "value", a column of text
Frames ==
    {[value |-> [numeric |-> TRUE, data |-> xs],
      text |-> [numeric |-> FALSE, data |-> [i \in DOMAIN xs |-> 0]]] :
        xs \in UNION {[1..n -> 1..MaxValue] : n \in 1..MaxLen}}

\* params with and without "window_size", with and without "columns"
ParamBags ==
    {[window_size |-> w] : w \in 2..MaxWindow}
    \cup {[window_size |-> w, columns |-> cs] :
             w \in 2..MaxWindow, cs \in {{"value"}, {"value", "text"}, {"absent"}}}
    \cup {[columns |-> {"value"}]}

ProcInit ==
    /\ df = NoFrame
    /\ params = NoFrame
    /\ result_df = NoFrame

RECURSIVE SumOver(_, _, _)
SumOver(xs, a, b) == IF a > b THEN 0 ELSE xs[a] + SumOver(xs, a + 1, b)

\* line 40: Series.rolling(window=window_size).mean(): the window ends at the
\* row, and a row with fewer than window_size values behind it is NaN
rolling(xs, window) ==
    [i \in DOMAIN xs |->
        IF i < window THEN NaN
        ELSE [num |-> SumOver(xs, i - window + 1, i), den |-> window]]

\* lines 26-42
rolling_mean_process ==
    /\ result_df = NoFrame
    /\ df # NoFrame
    /\ LET window_size == IF "window_size" \in DOMAIN params THEN params.window_size ELSE 5
           columns == IF "columns" \in DOMAIN params THEN params.columns
                      ELSE {c \in DOMAIN df : df[c].numeric}
           selected == {c \in columns \cap DOMAIN df : df[c].numeric}
       IN  result_df' =
              [n \in {<<c>> : c \in DOMAIN df}
                     \cup {<<c, "rolling_mean">> : c \in selected} |->
                  IF Len(n) = 1 THEN df[n[1]].data
                  ELSE rolling(df[n[1]].data, window_size)]
    /\ UNCHANGED <<df, params>>
    /\ UNCHANGED <<jobVars, watchVars, lifeVars>>

(***************************************************************************)
(* services/file_watcher.py: FileWatcher                                   *)
(*                                                                         *)
(* start() and stop() are called by the application's thread (thread 0)    *)
(* and by the health-check threads; each call advances statement by        *)
(* statement, so calls made by different threads interleave.  The sleeps   *)
(* of _health_check end at any time: nothing ties the 60 s of line 261 to  *)
(* the moment an observer dies.                                            *)
(***************************************************************************)
\* health-check threads alive at once
MaxHealth == 2
\* Observer objects created
MaxObservers == 3
\* observers whose thread dies on its own
MaxDeaths == 1
\* ticks explored after the clock's initial reading
LifeTicks == 5

Caller == 0
HealthIds == 1..MaxHealth
Threads == {Caller} \cup HealthIds
ObsIds == 1..MaxObservers
NoObserver == 0

\* lines 203-208
LifeInit ==
    /\ is_running = FALSE
    /\ observer = NoObserver
    /\ observers = [o \in ObsIds |-> "unborn"]
    /\ thread = [t \in Threads |-> IF t = Caller THEN "idle" ELSE "none"]
    /\ orphaned = {}

\* where a thread goes on when its call of start() returns: the caller is
\* free again, a health-check thread is back at the test of line 260
AfterStart(t) == IF t = Caller THEN "idle" ELSE "loop"

\* where a thread goes on when its call of stop() returns: a health-check
\* thread sleeps (line 266) and calls start() (line 267)
AfterStop(t) == IF t = Caller THEN "idle" ELSE "start_check"

\* the application calls start() or stop()
call_start ==
    /\ thread[Caller] = "idle"
    /\ thread' = [thread EXCEPT ![Caller] = "start_check"]
    /\ UNCHANGED <<is_running, observer, observers, orphaned>>
    /\ UNCHANGED <<jobVars, watchVars, procVars>>

call_stop ==
    /\ thread[Caller] = "idle"
    /\ thread' = [thread EXCEPT ![Caller] = "stop_check"]
    /\ UNCHANGED <<is_running, observer, observers, orphaned>>
    /\ UNCHANGED <<jobVars, watchVars, procVars>>

\* lines 212-214
start_check(t) ==
    /\ thread[t] = "start_check"
    /\ thread' = [thread EXCEPT ![t] = IF is_running THEN AfterStart(t)
                                      ELSE "start_observer"]
    /\ UNCHANGED <<is_running, observer, observers, orphaned>>
    /\ UNCHANGED <<jobVars, watchVars, procVars>>

\* lines 220-225: a new Observer replaces self.observer and is started
start_observer(t) ==
    /\ thread[t] = "start_observer"
    /\ \E o \in ObsIds :
          /\ observers[o] = "unborn"
          /\ \A n \in ObsIds : n < o => observers[n] # "unborn"
          /\ observers' = [observers EXCEPT ![o] = "alive"]
          /\ observer' = o
    /\ is_running' = TRUE
    /\ thread' = [thread EXCEPT ![t] = "start_health"]
    /\ UNCHANGED orphaned
    /\ UNCHANGED <<jobVars, watchVars, procVars>>

\* lines 228-232: every call that gets here starts a health-check thread
start_health(t) ==
    /\ thread[t] = "start_health"
    /\ \E h \in HealthIds :
          /\ thread[h] = "none"
          /\ \A g \in HealthIds : g < h => thread[g] # "none"
          /\ thread' = [thread EXCEPT ![t] = "start_sweep", ![h] = "sleep"]
    /\ UNCHANGED <<is_running, observer, observers, orphaned>>
    /\ UNCHANGED <<jobVars, watchVars, procVars>>

\* lines 269-279, one file of the walk: scheduled whatever the handler holds
sweep_file(p) ==
    IF fs[p] # "absent"
    THEN schedule_processing(p) /\ Observe(p)
    ELSE UNCHANGED <<processing_files, last_modified_times, waiter, seen>>

\* line 235: the walk of a watch directory that holds the one path; start()
\* returns
start_sweep(t) ==
    /\ thread[t] = "start_sweep"
    /\ \E p \in Paths : sweep_file(p)
    /\ thread' = [thread EXCEPT ![t] = AfterStart(t)]
    /\ UNCHANGED <<now, fs, processed_files, swept, records, emitted>>
    /\ UNCHANGED <<is_running, observer, observers, orphaned>>
    /\ UNCHANGED <<jobVars, procVars>>

\* lines 246-248
stop_check(t) ==
    /\ thread[t] = "stop_check"
    /\ thread' = [thread EXCEPT ![t] = IF is_running THEN "stop_do" ELSE AfterStop(t)]
    /\ UNCHANGED <<is_running, observer, observers, orphaned>>
    /\ UNCHANGED <<jobVars, watchVars, procVars>>

\* variant of stop_do that also ends the handler's waiter threads and clears
\* its bookkeeping
stop_do_reset(t) ==
    /\ thread[t] = "stop_do"
    /\ observers' = [observers EXCEPT ![observer] =
                        IF @ = "alive" THEN "stopped" ELSE @]
    /\ is_running' = FALSE
    /\ thread' = [thread EXCEPT ![t] = AfterStop(t)]
    /\ waiter' = [w \in WaiterIds |-> NoWaiter]
    /\ processing_files' = {}
    /\ last_modified_times' = [p \in Paths |-> NoEntry]
    /\ UNCHANGED <<now, fs, processed_files, swept, records, seen, emitted>>
    /\ UNCHANGED <<observer, orphaned>>
    /\ UNCHANGED <<jobVars, procVars>>

\* lines 251-253: the handler and its waiter threads are not touched
stop_do(t) ==
    /\ thread[t] = "stop_do"
    /\ observers' = [observers EXCEPT ![observer] =
                        IF @ = "alive" THEN "stopped" ELSE @]
    /\ is_running' = FALSE
    /\ thread' = [thread EXCEPT ![t] = AfterStop(t)]
    /\ UNCHANGED <<observer, orphaned>>
    /\ UNCHANGED <<jobVars, watchVars, procVars>>

\* line 260: the loop's test; the thread ends when it fails
health_loop(h) ==
    /\ thread[h] = "loop"
    /\ thread' = [thread EXCEPT ![h] = IF is_running THEN "sleep" ELSE "none"]
    /\ UNCHANGED <<is_running, observer, observers, orphaned>>
    /\ UNCHANGED <<jobVars, watchVars, procVars>>

\* lines 261-265: the sleep ends; a dead observer leads to stop()
health_wake(h) ==
    /\ thread[h] = "sleep"
    /\ thread' = [thread EXCEPT ![h] =
                     IF observers[observer] # "alive" THEN "stop_check" ELSE "loop"]
    /\ UNCHANGED <<is_running, observer, observers, orphaned>>
    /\ UNCHANGED <<jobVars, watchVars, procVars>>

\* an observer's thread dies on its own
ObserverDies(o) ==
    /\ observers[o] = "alive"
    /\ Cardinality({n \in ObsIds : observers[n] = "dead"}) < MaxDeaths
    /\ observers' = [observers EXCEPT ![o] = "dead"]
    /\ orphaned' = orphaned \cup {waiter[w].file_path : w \in {v \in WaiterIds : waiter[v].pc = "wait"}}
    /\ UNCHANGED <<is_running, observer, thread>>
    /\ UNCHANGED <<jobVars, watchVars, procVars>>

\* a file is written; every live observer reports it to the handler
ObservedModified(p) ==
    /\ \E o \in ObsIds : observers[o] = "alive"
    /\ FileModified(p, "valid")

StartNext ==
    \/ \E t \in Threads : start_check(t)
    \/ \E t \in Threads : start_observer(t)
    \/ \E t \in Threads : start_health(t)
    \/ \E t \in Threads : start_sweep(t)

StopNext ==
    \/ \E t \in Threads : stop_check(t)
    \/ \E t \in Threads : stop_do(t)

HealthNext ==
    \/ \E h \in HealthIds : health_loop(h)
    \/ \E h \in HealthIds : health_wake(h)

\* the watch directory holds a valid file before the first start(); copy and
\* save succeed
InitLife ==
    /\ JobsInit
    /\ HandlerInit
    /\ fs = [p \in Paths |-> "valid"]
    /\ LifeInit
    /\ ProcInit

\* the application starts and stops the watcher at will; observers die
LifeNext ==
    \/ call_start
    \/ call_stop
    \/ StartNext
    \/ StopNext
    \/ HealthNext
    \/ \E o \in ObsIds : ObserverDies(o)
    \/ \E w \in WaiterIds : process_file_ingest(w, TRUE, TRUE)
    \/ WaiterNext
    \/ Tick(LifeTicks)

\* the application starts the watcher and leaves it running; observers die
RestartNext ==
    \/ call_start
    \/ StartNext
    \/ StopNext
    \/ HealthNext
    \/ \E o \in ObsIds : ObserverDies(o)
    \/ \E w \in WaiterIds : process_file_ingest(w, TRUE, TRUE)
    \/ WaiterNext
    \/ Tick(LifeTicks)

\* the steps of one thread of the watcher
ThreadStep(t) ==
    \/ start_check(t) \/ start_observer(t) \/ start_health(t) \/ start_sweep(t)
    \/ stop_check(t) \/ stop_do(t)
    \/ (t \in HealthIds /\ (health_loop(t) \/ health_wake(t)))

\* the first start() of a watcher while files are being written
SweepNext ==
    \/ call_start
    \/ StartNext
    \/ \E p \in Paths : ObservedModified(p)
    \/ \E w \in WaiterIds : process_file_ingest(w, TRUE, TRUE)
    \/ WaiterNext
    \/ Tick(LifeTicks)

\* one call of process on every frame and every parameter bag
InitRolling ==
    /\ JobsInit
    /\ WatchInit
    /\ LifeInit
    /\ df \in Frames
    /\ params \in ParamBags
    /\ result_df = NoFrame

RollingNext == rolling_mean_process

\* one file that exists and is written again and again; copy and save succeed
InitBurst ==
    /\ JobsInit
    /\ HandlerInit
    /\ fs = [p \in Paths |-> "valid"]
    /\ LifeInit
    /\ ProcInit

BurstNext ==
    \/ \E p \in Paths : FileModified(p, "valid")
    \/ \E w \in WaiterIds : process_file_ingest(w, TRUE, TRUE)
    \/ WaiterNext
    \/ Tick(BurstTicks)

vars == <<jobVars, watchVars, lifeVars, procVars>>

Init == JobsInit /\ WatchInit /\ LifeInit /\ ProcInit

SpecJobs == Init /\ [][JobsNext]_vars

SpecWatch == Init /\ [][WatchNext]_vars

SpecBurst == InitBurst /\ [][BurstNext]_vars

SpecLife == InitLife /\ [][LifeNext]_vars

\* every thread of the watcher that can take a step eventually takes one
SpecRestart == InitLife /\ [][RestartNext]_vars /\ \A t \in Threads : WF_vars(ThreadStep(t))

SpecSweep == InitLife /\ [][SweepNext]_vars

SpecRolling == InitRolling /\ [][RollingNext]_vars

(***************************************************************************)
(* Properties of the job pipeline, checked under SpecJobs.                 *)
(***************************************************************************)
Terminal == {COMPLETED, FAILED}

RECURSIVE CountIn(_, _)
CountIn(log, S) ==
    IF log = <<>> THEN 0
    ELSE (IF Head(log) \in S THEN 1 ELSE 0) + CountIn(Tail(log), S)

Rank(s) == CASE s = PENDING -> 1 [] s = PROCESSING -> 2 [] OTHER -> 3

\* C1: the status values persisted for a job, in the order they are
\* persisted, form a subsequence of pending, processing, then exactly one of
\* completed or failed: whenever a commit changes the stored status, the new
\* value comes strictly later in that order than the one it replaces.
C1_StatusMonotone ==
    \A j \in JobIds : \A i \in 1..Len(statusLog[j]) - 1 :
        \/ statusLog[j][i + 1] = statusLog[j][i]
        \/ Rank(statusLog[j][i]) < Rank(statusLog[j][i + 1])

\* C2: of two executions that both try to move a job from processing to a
\* terminal status, one is rejected: a terminal write is applied only to a
\* row whose last written status is not terminal, so the payload is
\* persisted once.
C2_OneTerminalWrite ==
    \A j \in JobIds : \A i \in 2..Len(statusLog[j]) :
        statusLog[j][i] \in Terminal => statusLog[j][i - 1] \notin Terminal

\* C3: processing is entered at most once per job and the processor is
\* invoked at most once per job id.
C3_ProcessedOnce ==
    \A j \in JobIds :
        /\ CountIn(statusLog[j], {PROCESSING}) <= 1
        /\ invoked[j] <= 1

\* C8: a submission whose data_file_id has no DataFile record ends with 404,
\* and that step leaves the ProcessingResult table and the broker untouched.
C8_NotFoundCreatesNothing ==
    [][\A r \in ReqIds :
          (req[r].pc = "idle" /\ req'[r].pc # "idle"
              /\ datafile[req'[r].data_file_id] = "none")
          => /\ req'[r].pc = "done"
             /\ req'[r].code = 404
             /\ req'[r].id = 0
             /\ results' = results
             /\ queue' = queue
             /\ dispatchCount' = dispatchCount]_vars

C8_Witness ==
    \E r \in ReqIds :
        /\ req[r].pc = "done"
        /\ req[r].code = 404
        /\ \A j \in JobIds : results[j].exists = "no" /\ dispatchCount[j] = 0

\* C9: each successful submission has one record of its own, first committed
\* as pending, and calls delay for it once, after that commit; two
\* submissions never share a job id.
C9_OneRecordOneDispatch ==
    /\ \A r \in ReqIds :
          /\ req[r].pc = "created" =>
                /\ req[r].id \in JobIds
                /\ dispatchCount[req[r].id] = 0
                /\ queue[req[r].id] = 0
                /\ results[req[r].id].exists # "no"
                /\ results[req[r].id].status = PENDING
                /\ statusLog[req[r].id] = <<PENDING>>
          /\ (req[r].pc = "dispatched" \/ (req[r].pc = "done" /\ req[r].code # 404)) =>
                /\ req[r].id \in JobIds
                /\ dispatchCount[req[r].id] = 1
                /\ Head(statusLog[req[r].id]) = PENDING
    /\ \A r, q \in ReqIds : (r # q /\ req[r].id # 0) => req[r].id # req[q].id
    /\ \A j \in JobIds :
          /\ dispatchCount[j] <= 1
          /\ results[j].exists # "no" => \E r \in ReqIds : req[r].id = j

C9_Witness ==
    \E r, q \in ReqIds :
        /\ r # q
        /\ req[r].pc = "done" /\ req[r].code = 200
        /\ req[q].pc = "done" /\ req[q].code = 200
        /\ req[r].data_file_id = req[q].data_file_id
        /\ req[r].processing_type = req[q].processing_type
        /\ req[r].parameters = req[q].parameters
        /\ req[r].id # req[q].id
        /\ dispatchCount[req[r].id] = 1 /\ dispatchCount[req[q].id] = 1

\* C10: the response of a successful submission reports status pending and a
\* task id.
C10_ResponsePending ==
    \A r \in ReqIds :
        (req[r].pc = "done" /\ req[r].code = 200)
        => req[r].status = PENDING /\ req[r].task_id = "set"

\* C11: once an execution has persisted completed with its result payload
\* and the task has ended, an event with status completed has been published
\* for that job.
C11_CompletedPublished ==
    \A x \in ended :
        x.how = "completed"
        => \E ev \in published : ev.job = x.job /\ ev.status = COMPLETED

\* C12: an execution that fails persists failed first and publishes then;
\* every published event follows a committed failed status of its job and
\* carries the job's id, its data file id and status failed.
C12_FailedThenPublished ==
    /\ \A x \in ended :
          x.how = "failed" => \E ev \in published : ev.job = x.job
    /\ \A ev \in published :
          /\ CountIn(statusLog[ev.job], {FAILED}) >= 1
          /\ ev.data_file_id = results[ev.job].data_file_id
          /\ ev.status = FAILED

\* C13: the pending -> processing transition is followed by an event: once
\* an execution that marked the job processing has ended, an event with
\* status processing has been published for that job.
C13_ProcessingPublished ==
    \A x \in ended :
        x.how \in {"completed", "failed"}
        => \E ev \in published : ev.job = x.job /\ ev.status = PROCESSING

\* C14: a publish that raises is swallowed: no execution of the task is left
\* by the exception notify_clients raised.
C14_NotifyFailureSwallowed ==
    \A x \in ended : x.how # "notify_raised"

\* C15: no exception escapes the task: every execution ends by one of the
\* task's return statements, and one that met an error leaves an existing
\* record failed.
C15_NoExceptionEscapes ==
    \A x \in ended :
        /\ x.how \in {"notfound", "completed", "failed"}
        /\ (x.how = "failed" /\ Live(x.job)) => CountIn(statusLog[x.job], {FAILED}) >= 1

\* C16: a job whose parameters name a column the dataset does not have
\* (peak_detection, custom) is never persisted as completed.
C16_MissingColumnFails ==
    \A j \in JobIds :
        (/\ results[j].exists # "no"
         /\ results[j].parameters = "missing_column"
         /\ results[j].processing_type \in {"peak_detection", "custom"})
        => CountIn(statusLog[j], {COMPLETED}) = 0

\* C17: result and error exclude each other: a completed job has a payload
\* and no error detail, a failed job an error and no payload, a pending or
\* processing job neither.
C17_ResultErrorExclusive ==
    \A j \in JobIds :
        Live(j) =>
            LET d == results[j].result_data
            IN  CASE results[j].status = COMPLETED -> d.payload /\ d.error = "none"
                  [] results[j].status = FAILED -> ~d.payload /\ d.error # "none"
                  [] OTHER -> d = Null

C19_UploadedFileCompletes ==
    \A j \in JobIds :
        (/\ results[j].exists # "no"
         /\ datafile[results[j].data_file_id] = "local"
         /\ results[j].processing_type = "rolling_mean"
         /\ results[j].parameters = "valid")
        => CountIn(statusLog[j], {FAILED}) = 0

\* C27: every dispatched job whose record was not deleted reaches completed
\* or failed: once every message of the job has been consumed and every
\* execution of its task has ended, the record is completed or failed.
C27_DispatchedJobTerminates ==
    \A j \in JobIds :
        (/\ Live(j)
         /\ dispatchCount[j] > 0
         /\ queue[j] = 0
         /\ \A e \in ExecIds : exec[e].pc = "free" \/ exec[e].job # j)
        => results[j].status \in Terminal

(***************************************************************************)
(* Properties of the directory watcher.                                    *)
(***************************************************************************)
WaitersOf(p, pcs) ==
    {w \in WaiterIds : waiter[w].pc \in pcs /\ waiter[w].file_path = p}

\* C4 (SpecBurst): for a burst of modify events on one path, each less than
\* the quiet interval after the one before, that ends before the ceiling,
\* there is exactly one emission: none while the wait is running, one row
\* once it is over, never two.
C4_OneEmissionPerBurst ==
    \A p \in Paths :
        (seen[p].first # NoEntry /\ seen[p].gaps
            /\ seen[p].last - seen[p].first < Ceiling)
        => /\ records[p] <= 1
           /\ WaitersOf(p, {"wait", "process", "mark", "ingest"}) # {} => records[p] = 0
           /\ WaitersOf(p, {"wait", "process", "mark", "ingest", "finally", "finally2"}) = {}
                 => records[p] = 1

C4_Witness ==
    \E p \in Paths :
        /\ seen[p].gaps
        /\ seen[p].last - seen[p].first >= Quiet
        /\ seen[p].last - seen[p].first < Ceiling
        /\ WaitersOf(p, {"wait", "process", "mark", "ingest", "finally", "finally2"}) = {}
        /\ records[p] = 1

\* C5: at most one stabilization wait runs per path at any time.
C5_OneWaitPerPath ==
    \A p \in Paths : Cardinality(WaitersOf(p, {"wait"})) <= 1

\* C6 (SpecBurst): while a path keeps receiving modify events less than the
\* quiet interval apart, no row is written before the ceiling has elapsed
\* since the first event, and once the burst has lasted longer than the
\* ceiling exactly one row has been written.
C6_CeilingEmission ==
    \A p \in Paths :
        /\ \A e \in emitted :
              (e.file_path = p /\ e.ongoing) => e.at - seen[p].first >= Ceiling
        /\ (seen[p].first # NoEntry /\ seen[p].gaps /\ now - seen[p].last < Quiet
               /\ now - seen[p].first > Ceiling)
           => records[p] = 1

C6_Witness ==
    \E e \in emitted :
        /\ e.ongoing
        /\ e.why = "ceiling"
        /\ e.at - seen[e.file_path].first = Ceiling
        /\ seen[e.file_path].gaps
        /\ now > e.at
        /\ now - seen[e.file_path].last < Quiet
        /\ records[e.file_path] = 1

\* C7: a row is written for a path only by a waiter that left its loop when
\* the path had seen no event for the quiet interval, or when the ceiling had
\* elapsed since that waiter started.
C7_NoEarlyEmission ==
    \A e \in emitted : e.why # "early"

C21_ContentNeverBlocks ==
    \A w \in WaiterIds : waiter[w].outcome \in {"none", "record", "copy_failed", "raised"}

\* C22: after a storage-copy failure the path is admissible again: the thread
\* whose copy failed leaves the path out of processed_files, so that the next
\* attempt runs the ingestion body and can create the record.
C22_CopyFailureRetryable ==
    \A w \in WaiterIds :
        waiter[w].outcome = "copy_failed" => waiter[w].file_path \notin processed_files

\* C26: whatever the events, the sweeps and the interleaving of the waiter
\* threads, at most one DataFile record is created for a path.
C26_AtMostOneRecord ==
    \A p \in Paths : records[p] <= 1

\* C29: while a stabilization wait runs for a path, the path is in
\* processing_files and has a last_modified_times entry; once no waiter
\* thread is left for the path it is in neither.
C29_BookkeepingConsistent ==
    \A p \in Paths :
        /\ WaitersOf(p, {"wait"}) # {} =>
              p \in processing_files /\ last_modified_times[p] # NoEntry
        /\ (\A w \in WaiterIds : waiter[w].pc = "none" \/ waiter[w].file_path # p) =>
              p \notin processing_files /\ last_modified_times[p] = NoEntry

\* C30: a modify event that arrives while the ingestion body runs is not
\* lost: when that body ends without a record and its thread has taken the
\* path out of processing_files, another wait is running for the path.
C30_LateEventNotLost ==
    \A w \in WaiterIds :
        (/\ waiter[w].pc = "finally2"
         /\ waiter[w].late
         /\ waiter[w].outcome \in {"raised", "copy_failed", "no_rows"})
        => WaitersOf(waiter[w].file_path, {"wait"}) # {}


(***************************************************************************)
(* Properties of the FileWatcher and of the processors.                    *)
(***************************************************************************)
\* the threads running _health_check, and the observers whose thread runs
HealthLoops == {h \in HealthIds : thread[h] # "none"}
LiveObservers == {o \in ObsIds : observers[o] = "alive"}
ObserverDown == is_running /\ observer # NoObserver /\ observers[observer] = "dead"
ObserverUp == is_running /\ observer # NoObserver /\ observers[observer] = "alive"

C28_OneLoopOneObserver ==
    /\ is_running => Cardinality(HealthLoops) <= 1
    /\ Cardinality(LiveObservers) <= 1

\* C23 (SpecSweep): a supported file that is in the watch directory when the
\* watcher is started produces one record: never more than one, and exactly
\* one once start() has returned and no waiter thread is left.
C23_SweptFileEmittedOnce ==
    \A p \in Paths :
        /\ records[p] <= 1
        /\ (/\ is_running
            /\ thread[Caller] = "idle"
            /\ \A w \in WaiterIds : waiter[w].pc = "none")
           => records[p] = 1

\* the centred window of size w around row i, clipped to the rows 1..n
CenterLo(w, i) ==
    IF i + ((w - 1) \div 2) - w + 1 < 1 THEN 1 ELSE i + ((w - 1) \div 2) - w + 1
CenterHi(w, i, n) ==
    IF i + ((w - 1) \div 2) > n THEN n ELSE i + ((w - 1) \div 2)

\* C25 (SpecRolling): for every selected numeric column c and window size w
\* the returned frame has a column c_rolling_mean_w whose value at each row
\* is the mean of the input over the centred window clipped to the data.
C25_CenteredRollingMean ==
    result_df # NoFrame =>
        LET w == IF "window_size" \in DOMAIN params THEN params.window_size ELSE 5
            cols == IF "columns" \in DOMAIN params THEN params.columns
                    ELSE {c \in DOMAIN df : df[c].numeric}
        IN  \A c \in {k \in cols \cap DOMAIN df : df[k].numeric} :
               /\ <<c, "rolling_mean", w>> \in DOMAIN result_df
               /\ LET xs == df[c].data
                      out == result_df[<<c, "rolling_mean", w>>]
                  IN  \A i \in DOMAIN xs :
                         /\ out[i].den > 0
                         /\ out[i].num * (CenterHi(w, i, Len(xs)) - CenterLo(w, i) + 1)
                            = SumOver(xs, CenterLo(w, i), CenterHi(w, i, Len(xs))) * out[i].den

====
